---- MODULE Spec2Model ----
(***************************************************************************)
(* A model of the AI Search provisioning scripts:                          *)
(*   src/src/search/index_utils.py   (template rendering, the four         *)
(*                                    provisioners, main)                  *)
(*   src/src/search/common_utils.py  (valid_name, absolute_url)            *)
(*   src/data/upload_data.py         (upload_data_files)                   *)
(*                                                                         *)
(* A text is a sequence of symbols.  A symbol is a one-character string,   *)
(* or, in the orchestration model, a longer string that stands for a run   *)
(* of characters no operation of that model ever splits (a placeholder     *)
(* token, a literal fragment of the connection string, a structural mark   *)
(* of the resource document).                                              *)
(*                                                                         *)
(* Four specifications share the module:                                   *)
(*   Spec        runs of main() against a remote store                     *)
(*   SpecRender  _prepare_json_schema on bounded templates and token maps  *)
(*   SpecName    valid_name on bounded strings                             *)
(*   SpecUpload  upload_data_files on bounded local folders                *)
(***************************************************************************)
EXTENDS Integers, Sequences, FiniteSets, TLC

VARIABLES
    \* ---- Spec: runs of main()
    pc,             \* "parse", "auth", "provision", "done", "failed", "usage_error"; "idle" elsewhere
    step,           \* the position in StepOrder of the provisioner to call next
    argv,           \* the command line of this run
    args,           \* parser.parse_args()
    credential,     \* DefaultAzureCredential() has been built in this run
    names,          \* index_name, datasource_name, skillset_name, indexer_name
    templates,      \* the text of the four files under index_config/
    remote,         \* the search service: a sequence of [kind, name, def]
    calls,          \* the remote create-or-update calls of this run, in order
    connCall,       \* the call of _get_storage_conn_string: positional arguments and result
    failedStep,     \* the position of the provisioner that raised, 0 if none
    failedName,     \* the resource name in the logged error
    run,            \* the number of this run
    remoteAtStart,  \* remote as this run found it
    prevArgv,       \* the command line of the run before
    prevOutcome,    \* how the run before ended
    faulted,        \* the service rejected a call of this run
    \* ---- SpecRender: one call of _prepare_json_schema
    rpc,               \* "input" before the call, "rendered" after it
    tmpl,              \* the text read from file_name
    values_to_assign,  \* the dict, as the sequence of its <<key, value>> items in iteration order
    indexer_def,       \* the returned text
    \* ---- SpecName: one call of valid_name
    npc,               \* "input" before the call, "validated" after it
    value,             \* the argument
    validated,         \* [ok |-> the call returned, value |-> what it returned]
    \* ---- SpecUpload: one call of upload_data_files
    upc,               \* "start", "loop", "done", "failed"; "idle" elsewhere
    local_folder,      \* the files under the folder, each the sequence of its path's parts
    pending,           \* the files rglob("*.pdf") has still to yield
    container,         \* [exists, blobs]: the remote container, blobs a set of [name, data]
    uploads            \* the upload_blob calls that returned, in order: [file, name]

mainVars ==
    <<pc, step, argv, args, credential, names, templates, remote, calls, connCall,
      failedStep, failedName, run, remoteAtStart, prevArgv, prevOutcome, faulted>>
renderVars == <<rpc, tmpl, values_to_assign, indexer_def>>
nameVars == <<npc, value, validated>>
uploadVars == <<upc, local_folder, pending, container, uploads>>

(***************************************************************************)
(* Texts                                                                   *)
(***************************************************************************)

\* All texts of at most n symbols over the alphabet A.
TextsUpTo(A, n) == UNION {[1..k -> A] : k \in 0..n}

\* sub in s (Python's `sub in s`).
Contains(s, sub) ==
    \E i \in 1..(Len(s) - Len(sub) + 1) : SubSeq(s, i, i + Len(sub) - 1) = sub

\* str.replace(old, new): every non-overlapping occurrence of old, scanning
\* from the left, is replaced by new; the replaced text is not rescanned.
RECURSIVE Replace(_, _, _)
Replace(s, old, new) ==
    IF old = <<>>
    THEN IF s = <<>> THEN new ELSE new \o <<Head(s)>> \o Replace(Tail(s), old, new)
    ELSE IF Len(s) < Len(old) THEN s
    ELSE IF SubSeq(s, 1, Len(old)) = old
         THEN new \o Replace(SubSeq(s, Len(old) + 1, Len(s)), old, new)
         ELSE <<Head(s)>> \o Replace(Tail(s), old, new)

\* The loop of _prepare_json_schema run over the items in reverse order.
RECURSIVE PrepareReversed(_, _)
PrepareReversed(text, items) ==
    IF items = <<>> THEN text
    ELSE LET last == items[Len(items)]
         IN PrepareReversed(Replace(text, last[1], last[2]), SubSeq(items, 1, Len(items) - 1))

\* The loop of _prepare_json_schema stopping one item short.
RECURSIVE PrepareSkipLast(_, _)
PrepareSkipLast(text, items) ==
    IF Len(items) <= 1 THEN text
    ELSE PrepareSkipLast(Replace(text, items[1][1], items[1][2]), Tail(items))

\* _prepare_json_schema on the text of the file: for key in the dict's
\* iteration order, text = text.replace(key, dict[key]).
RECURSIVE _prepare_json_schema(_, _)
_prepare_json_schema(text, items) ==
    IF items = <<>> THEN text
    ELSE _prepare_json_schema(Replace(text, items[1][1], items[1][2]), Tail(items))

(***************************************************************************)
(* SpecRender: _prepare_json_schema as a function of template and map      *)
(***************************************************************************)

MaxTmplLen == 5

RenderAlphabet == {"<", ">", "a", "b"}
Delims == {"<", ">"}
TokA == <<"<", "a", ">">>
TokB == <<"<", "b", ">">>
Tokens == {TokA, TokB}

\* The substitution values tried: empty, plain, a bare delimiter, the halves
\* of a token, each token alone and each token inside other text.
RenderValues ==
    { <<>>, <<"a">>, <<"b", "a">>, <<"<">>, <<">">>, <<"<", "a">>, <<"a", ">">>,
      TokA, TokB, <<"a">> \o TokB, TokA \o <<"b">>, TokB \o TokA }

\* Token maps of one or two entries with distinct keys, in either order.
TokenMaps ==
    {<< <<k, v>> >> : k \in Tokens, v \in RenderValues}
    \cup UNION {{<< <<k1, v1>>, <<k2, v2>> >> :
                    k2 \in Tokens \ {k1}, v1 \in RenderValues, v2 \in RenderValues} :
                k1 \in Tokens}

InitRender ==
    /\ rpc = "input"
    /\ tmpl \in TextsUpTo(RenderAlphabet, MaxTmplLen)
    /\ values_to_assign \in TokenMaps
    /\ indexer_def = <<>>

RenderIdle ==
    /\ rpc = "idle"
    /\ tmpl = <<>>
    /\ values_to_assign = <<>>
    /\ indexer_def = <<>>

Render ==
    /\ rpc = "input"
    /\ indexer_def' = _prepare_json_schema(tmpl, values_to_assign)
    /\ rpc' = "rendered"
    /\ UNCHANGED <<tmpl, values_to_assign>>

(***************************************************************************)
(* SpecName: valid_name                                                    *)
(***************************************************************************)

MaxNameLen == 3

NameAlphabet == {"a", "1", "-", "_", " ", "!"}
Whitespace == {" "}
\* The characters str.isalnum accepts, among those the model uses.
Alnum ==
    {"a", "b", "c", "d", "e", "g", "h", "i", "k", "l", "m", "n", "o", "p", "r", "s", "t",
     "u", "v", "1"}

\* str.strip(): leading and trailing whitespace removed.
RECURSIVE lstrip(_)
lstrip(s) == IF s # <<>> /\ Head(s) \in Whitespace THEN lstrip(Tail(s)) ELSE s

RECURSIVE rstrip(_)
rstrip(s) ==
    IF s # <<>> /\ s[Len(s)] \in Whitespace THEN rstrip(SubSeq(s, 1, Len(s) - 1)) ELSE s

strip(s) == rstrip(lstrip(s))

\* str.isalnum(): at least one character and every character alphanumeric.
isalnum(s) == s # <<>> /\ \A i \in DOMAIN s : s[i] \in Alnum

\* valid_name(value): [ok |-> FALSE] stands for the ArgumentTypeError raised.
valid_name(v) ==
    IF v = <<>> \/ strip(v) = <<>>
    THEN [ok |-> FALSE, value |-> <<>>]
    ELSE LET parsed_value == Replace(Replace(v, <<"-">>, <<>>), <<"_">>, <<>>)
         IN IF ~isalnum(parsed_value)
            THEN [ok |-> FALSE, value |-> <<>>]
            ELSE [ok |-> TRUE, value |-> v]

InitName ==
    /\ npc = "input"
    /\ value \in TextsUpTo(NameAlphabet, MaxNameLen)
    /\ validated = [ok |-> FALSE, value |-> <<>>]

NameIdle ==
    /\ npc = "idle"
    /\ value = <<>>
    /\ validated = [ok |-> FALSE, value |-> <<>>]

Validate ==
    /\ npc = "input"
    /\ validated' = valid_name(value)
    /\ npc' = "validated"
    /\ UNCHANGED value

(***************************************************************************)
(* absolute_url                                                            *)
(***************************************************************************)

\* str.isalpha on an ASCII character, and urllib's scheme_chars.
Letters == Alnum \ {"1"}
SchemeChars == Alnum \cup {"+", "-", "."}

\* The position of the first symbol of s that is in set, else Len(s) + 1.
FirstIn(s, set) ==
    IF \E i \in DOMAIN s : s[i] \in set
    THEN CHOOSE i \in DOMAIN s : s[i] \in set /\ \A j \in 1..(i - 1) : s[j] \notin set
    ELSE Len(s) + 1

\* urlparse(url), its scheme and netloc: the scheme is the text before the
\* first ":" when that text starts with a letter and holds only scheme
\* characters; the netloc follows a leading "//" and ends at "/", "?" or "#".
urlparse(url) ==
    LET i == FirstIn(url, {":"})
        hasScheme ==
            /\ 1 < i
            /\ i <= Len(url)
            /\ url[1] \in Letters
            /\ \A j \in 1..(i - 1) : url[j] \in SchemeChars
        rest == IF hasScheme THEN SubSeq(url, i + 1, Len(url)) ELSE url
        hasNetloc == Len(rest) >= 2 /\ SubSeq(rest, 1, 2) = <<"/", "/">>
        after == SubSeq(rest, 3, Len(rest))
    IN [scheme |-> IF hasScheme THEN SubSeq(url, 1, i - 1) ELSE <<>>,
        netloc |-> IF hasNetloc
                   THEN SubSeq(after, 1, FirstIn(after, {"/", "?", "#"}) - 1)
                   ELSE <<>>]

\* absolute_url(value): [ok |-> FALSE] stands for the ArgumentTypeError raised.
absolute_url(v) ==
    LET parsed == urlparse(v)
    IN IF parsed.scheme = <<>> \/ parsed.netloc = <<>>
       THEN [ok |-> FALSE, value |-> <<>>]
       ELSE [ok |-> TRUE, value |-> v]

(***************************************************************************)
(* Resource documents                                                      *)
(*                                                                         *)
(* A resource document is the text "{" field "," field ... "}", a field    *)
(* being a field key followed by the symbols of its value.  deserialize    *)
(* stands for <Model>.deserialize(definition, "application/json"): it      *)
(* raises on text that is not such a document and returns the fields       *)
(* otherwise, a repeated key keeping its last value.                       *)
(***************************************************************************)

Structural == {"{", "}", ","}
FieldKeys ==
    {"name:", "uri:", "connection_string:", "container:", "index:",
     "dataSourceName:", "targetIndexName:", "skillsetName:"}

RECURSIVE split(_, _)
split(s, sep) ==
    LET i == FirstIn(s, {sep})
    IN IF i > Len(s) THEN <<s>>
       ELSE <<SubSeq(s, 1, i - 1)>> \o split(SubSeq(s, i + 1, Len(s)), sep)

deserialize(text) ==
    LET n == Len(text)
        fields == split(SubSeq(text, 2, n - 1), ",")
        fieldOk(f) ==
            /\ f # <<>>
            /\ f[1] \in FieldKeys
            /\ \A i \in 2..Len(f) : f[i] \notin Structural \cup FieldKeys
        wellFormed ==
            /\ n >= 2
            /\ text[1] = "{"
            /\ text[n] = "}"
            /\ \A i \in DOMAIN fields : fieldOk(fields[i])
        last(k) == CHOOSE i \in DOMAIN fields :
                       fields[i][1] = k /\ \A j \in DOMAIN fields : fields[j][1] = k => j <= i
    IN IF ~wellFormed
       THEN [ok |-> FALSE, def |-> <<>>]
       ELSE [ok |-> TRUE,
             def |-> [k \in {fields[i][1] : i \in DOMAIN fields} |-> Tail(fields[last(k)])]]

(***************************************************************************)
(* The remote service                                                      *)
(***************************************************************************)

\* A create that never replaces: the resource is added beside the one of the
\* same name.
create_only(store, kind, def) ==
    Append(store, [kind |-> kind, name |-> def["name:"], def |-> def])

\* indexer_client.create_or_update_*(definition): a PUT by resource name,
\* replacing the resource of that kind and name or adding it.
create_or_update(store, kind, def) ==
    LET same(i) == store[i].kind = kind /\ store[i].name = def["name:"]
        new == [kind |-> kind, name |-> def["name:"], def |-> def]
    IN IF \E i \in DOMAIN store : same(i)
       THEN [i \in DOMAIN store |-> IF same(i) THEN new ELSE store[i]]
       ELSE Append(store, new)

(***************************************************************************)
(* Spec: main()                                                            *)
(***************************************************************************)

MaxRuns == 2

\* main() calling the indexer's provisioner before the skillset's.
StepOrderIndexerEarly == <<"index", "datasource", "indexer", "skillset">>

\* The order of the four calls in main().
StepOrder == <<"index", "datasource", "skillset", "indexer">>

search_index_name == <<"<search_index_name>">>
skillset_name_token == <<"<skillset_name>">>
open_ai_uri_token == <<"<open_ai_uri>">>
search_indexer_name == <<"<search_indexer_name>">>
data_source_name == <<"<data_source_name>">>
connection_string == <<"<connection_string>">>
container_name_token == <<"<container_name>">>

\* The files under index_config/: the index and skillset files as shipped or
\* cut short, the data source file with the connection placeholder, with a
\* literal connection string, or with no connection field at all.
IndexTemplates ==
    { <<"{", "name:">> \o search_index_name \o <<",", "uri:">> \o open_ai_uri_token \o <<"}">>,
      <<"{", "name:">> \o search_index_name \o <<",", "uri:">> \o open_ai_uri_token }
DataSourceTemplates ==
    { <<"{", "name:">> \o data_source_name \o <<",", "connection_string:">> \o connection_string
          \o <<",", "container:">> \o container_name_token \o <<"}">>,
      <<"{", "name:">> \o data_source_name \o <<",", "connection_string:", "AccountKey=k", ",", "container:">>
          \o container_name_token \o <<"}">>,
      <<"{", "name:">> \o data_source_name \o <<",", "container:">> \o container_name_token \o <<"}">> }
SkillsetTemplates ==
    { <<"{", "name:">> \o skillset_name_token \o <<",", "index:">> \o search_index_name
          \o <<",", "uri:">> \o open_ai_uri_token \o <<"}">>,
      <<"{", "name:">> \o skillset_name_token \o <<",", "index:", "{">> \o search_index_name
          \o <<",", "uri:">> \o open_ai_uri_token \o <<"}">> }
IndexerTemplates ==
    { <<"{", "name:">> \o search_indexer_name \o <<",", "dataSourceName:">> \o data_source_name
          \o <<",", "targetIndexName:">> \o search_index_name
          \o <<",", "skillsetName:">> \o skillset_name_token \o <<"}">> }

\* The command lines tried: three that pass validation (two base names, and a
\* URL whose path holds the text of a placeholder), and those with a single
\* argument that fails it.
GoodArgv ==
    [aisearch_name |-> <<"s", "v", "c">>,
     base_index_name |-> <<"d", "o", "c", "s">>,
     openai_api_base |-> <<"h", "t", "t", "p", "s", ":", "/", "/", "o", "a", "i">>,
     subscription_id |-> <<"s", "1">>,
     resource_group_name |-> <<"r", "g", "1">>,
     storage_name |-> <<"a", "c", "c", "t", "1">>,
     container_name |-> <<"d", "a", "t", "a">>]
Argvs ==
    { GoodArgv,
      [GoodArgv EXCEPT !.base_index_name = <<"k", "b", "-", "1">>],
      [GoodArgv EXCEPT !.openai_api_base =
          <<"h", "t", "t", "p", "s", ":", "/", "/", "o", "a", "i", "/", "<skillset_name>">>],
      [GoodArgv EXCEPT !.aisearch_name = <<"b", "a", "d", " ", "n", "a", "m", "e", "!">>],
      [GoodArgv EXCEPT !.base_index_name = <<" ">>],
      [GoodArgv EXCEPT !.openai_api_base = <<"n", "o", "t", "-", "a", "-", "u", "r", "l">>],
      [GoodArgv EXCEPT !.openai_api_base = <<"/", "/", "o", "a", "i">>],
      [GoodArgv EXCEPT !.subscription_id = <<>>],
      [GoodArgv EXCEPT !.resource_group_name = <<"r", "g", "/", "1">>],
      [GoodArgv EXCEPT !.storage_name = <<"-">>],
      [GoodArgv EXCEPT !.container_name = <<"d", " ", "a">>] }

NoArgs ==
    [aisearch_name |-> <<>>, base_index_name |-> <<>>, openai_api_base |-> <<>>,
     subscription_id |-> <<>>, resource_group_name |-> <<>>, storage_name |-> <<>>,
     container_name |-> <<>>]
NoNames ==
    [index_name |-> <<>>, datasource_name |-> <<>>, skillset_name |-> <<>>, indexer_name |-> <<>>]
NoConnCall == [args |-> <<>>, result |-> <<>>]

InitMain ==
    /\ pc = "parse"
    /\ step = 0
    /\ argv \in Argvs
    /\ args = NoArgs
    /\ credential = FALSE
    /\ names = NoNames
    /\ templates \in [index : IndexTemplates, datasource : DataSourceTemplates,
                      skillset : SkillsetTemplates, indexer : IndexerTemplates]
    /\ remote = <<>>
    /\ calls = <<>>
    /\ connCall = NoConnCall
    /\ failedStep = 0
    /\ failedName = <<>>
    /\ run = 1
    /\ remoteAtStart = <<>>
    /\ prevArgv = NoArgs
    /\ prevOutcome = "none"
    /\ faulted = FALSE

MainIdle ==
    /\ pc = "idle"
    /\ step = 0
    /\ argv = NoArgs
    /\ args = NoArgs
    /\ credential = FALSE
    /\ names = NoNames
    /\ templates = <<>>
    /\ remote = <<>>
    /\ calls = <<>>
    /\ connCall = NoConnCall
    /\ failedStep = 0
    /\ failedName = <<>>
    /\ run = 0
    /\ remoteAtStart = <<>>
    /\ prevArgv = NoArgs
    /\ prevOutcome = "none"
    /\ faulted = FALSE

\* The parser with openai_api_base taken as a plain string.
ArgsValidUrlUnchecked(a) ==
    /\ valid_name(a.aisearch_name).ok
    /\ valid_name(a.base_index_name).ok
    /\ valid_name(a.subscription_id).ok
    /\ valid_name(a.resource_group_name).ok
    /\ valid_name(a.storage_name).ok
    /\ valid_name(a.container_name).ok

\* parser.parse_args() returns: every argument's type function accepted it.
ArgsValid(a) ==
    /\ valid_name(a.aisearch_name).ok
    /\ valid_name(a.base_index_name).ok
    /\ absolute_url(a.openai_api_base).ok
    /\ valid_name(a.subscription_id).ok
    /\ valid_name(a.resource_group_name).ok
    /\ valid_name(a.storage_name).ok
    /\ valid_name(a.container_name).ok

\* main(), parsing: a rejected argument ends the run in the parser's error.
ParseArgs ==
    /\ pc = "parse"
    /\ IF ArgsValid(argv)
       THEN args' = argv /\ pc' = "auth"
       ELSE args' = args /\ pc' = "usage_error"
    /\ UNCHANGED <<step, argv, credential, names, templates, remote, calls, connCall,
                   failedStep, failedName, run, remoteAtStart, prevArgv, prevOutcome, faulted>>

ai_search_uri(aisearch_name) == <<"https://">> \o aisearch_name \o <<".search.windows.net">>

\* main(), the credential and the names formed from the base name.
Authenticate ==
    /\ pc = "auth"
    /\ credential' = TRUE
    /\ names' = [index_name |-> args.base_index_name \o <<"-index">>,
                 datasource_name |-> args.base_index_name \o <<"-ds">>,
                 skillset_name |-> args.base_index_name \o <<"-skills">>,
                 indexer_name |-> args.base_index_name \o <<"-indexer">>]
    /\ pc' = "provision"
    /\ step' = 1
    /\ UNCHANGED <<argv, args, templates, remote, calls, connCall, failedStep, failedName,
                   run, remoteAtStart, prevArgv, prevOutcome, faulted>>

\* The provisioner returned: main() goes on to the next call, or ends.
Return ==
    /\ UNCHANGED <<failedStep, failedName>>
    /\ IF step = Len(StepOrder)
       THEN pc' = "done" /\ step' = step
       ELSE pc' = "provision" /\ step' = step + 1

\* An except clause that logs the error and does not raise it again.
RaiseSwallowed(name) ==
    /\ failedStep' = step
    /\ failedName' = name
    /\ remote' = remote
    /\ IF step = Len(StepOrder)
       THEN pc' = "done" /\ step' = step
       ELSE pc' = "provision" /\ step' = step + 1

\* An except clause that tears down what the run has applied before raising.
RaiseAfterTeardown(name) ==
    /\ pc' = "failed"
    /\ step' = step
    /\ failedStep' = step
    /\ failedName' = name
    /\ remote' = remoteAtStart

\* except Exception: logger.error(... name ...); raise.  The exception leaves
\* main(); nothing is retried and nothing applied is undone.
Raise(name) ==
    /\ pc' = "failed"
    /\ step' = step
    /\ failedStep' = step
    /\ failedName' = name
    /\ remote' = remote

\* The tail of every provisioner: deserialize raised, or the definition is
\* sent and the service accepts or rejects it.
Apply(kind, name, parsed) ==
    \/ /\ ~parsed.ok
       /\ Raise(name)
       /\ UNCHANGED <<calls, faulted>>
    \/ /\ parsed.ok
       /\ \E accepted \in BOOLEAN :
            /\ calls' = Append(calls, [kind |-> kind, name |-> name,
                                       endpoint |-> ai_search_uri(args.aisearch_name),
                                       def |-> parsed.def, ok |-> accepted])
            /\ IF accepted
               THEN /\ remote' = create_or_update(remote, kind, parsed.def)
                    /\ Return
                    /\ UNCHANGED faulted
               ELSE /\ faulted' = TRUE
                    /\ Raise(name)

create_or_update_index ==
    /\ pc = "provision"
    /\ StepOrder[step] = "index"
    /\ LET definition == _prepare_json_schema(templates.index,
                             << <<search_index_name, names.index_name>>,
                                <<open_ai_uri_token, args.openai_api_base>> >>)
       IN Apply("index", names.index_name, deserialize(definition))
    /\ UNCHANGED <<argv, args, credential, names, templates, connCall, run, remoteAtStart,
                   prevArgv, prevOutcome>>

\* The call of the builder with resource group and storage account exchanged.
ConnStringArgsSwapped(subscription_id, resource_group_name, storage_account_name) ==
    <<subscription_id, resource_group_name, storage_account_name>>

\* The positional arguments create_or_update_datasource gives the builder.
ConnStringArgs(subscription_id, resource_group_name, storage_account_name) ==
    <<subscription_id, storage_account_name, resource_group_name>>

_get_storage_conn_string(subscription_id, storage_account_name, resource_group_name) ==
    <<"ResourceId=/subscriptions/">> \o subscription_id
        \o <<"/resourceGroups/">> \o resource_group_name
        \o <<"/providers/Microsoft.Storage">>
        \o <<"/storageAccounts/">> \o storage_account_name \o <<";">>

\* The definition sent as deserialized, its connection string not set.
ConnectionLeftAsRead(def, conn_string) == def

\* data_source_connection.connection_string = conn_string
SetConnectionString(def, conn_string) ==
    [k \in DOMAIN def \cup {"connection_string:"} |->
        IF k = "connection_string:" THEN conn_string ELSE def[k]]

create_or_update_datasource ==
    /\ pc = "provision"
    /\ StepOrder[step] = "datasource"
    /\ LET a == ConnStringArgs(args.subscription_id, args.resource_group_name,
                               args.storage_name)
           conn_string == _get_storage_conn_string(a[1], a[2], a[3])
           definition == _prepare_json_schema(templates.datasource,
                             << <<connection_string, conn_string>>,
                                <<container_name_token, args.container_name>>,
                                <<data_source_name, names.datasource_name>> >>)
           parsed == deserialize(definition)
           data_source_connection ==
               IF parsed.ok
               THEN [ok |-> TRUE, def |-> SetConnectionString(parsed.def, conn_string)]
               ELSE parsed
       IN /\ connCall' = [args |-> a, result |-> conn_string]
          /\ Apply("datasource", names.datasource_name, data_source_connection)
    /\ UNCHANGED <<argv, args, credential, names, templates, run, remoteAtStart,
                   prevArgv, prevOutcome>>

create_or_update_skillset ==
    /\ pc = "provision"
    /\ StepOrder[step] = "skillset"
    /\ LET definition == _prepare_json_schema(templates.skillset,
                             << <<search_index_name, names.index_name>>,
                                <<skillset_name_token, names.skillset_name>>,
                                <<open_ai_uri_token, args.openai_api_base>> >>)
       IN Apply("skillset", names.skillset_name, deserialize(definition))
    /\ UNCHANGED <<argv, args, credential, names, templates, connCall, run, remoteAtStart,
                   prevArgv, prevOutcome>>

create_or_update_indexer ==
    /\ pc = "provision"
    /\ StepOrder[step] = "indexer"
    /\ LET definition == _prepare_json_schema(templates.indexer,
                             << <<search_indexer_name, names.indexer_name>>,
                                <<search_index_name, names.index_name>>,
                                <<skillset_name_token, names.skillset_name>>,
                                <<data_source_name, names.datasource_name>> >>)
       IN Apply("indexer", names.indexer_name, deserialize(definition))
    /\ UNCHANGED <<argv, args, credential, names, templates, connCall, run, remoteAtStart,
                   prevArgv, prevOutcome>>

\* The script is run again, on the service as the run before left it.
Rerun ==
    /\ pc \in {"done", "failed", "usage_error"}
    /\ run < MaxRuns
    /\ argv' \in Argvs
    /\ prevArgv' = argv
    /\ prevOutcome' = pc
    /\ run' = run + 1
    /\ remoteAtStart' = remote
    /\ pc' = "parse"
    /\ step' = 0
    /\ args' = NoArgs
    /\ credential' = FALSE
    /\ names' = NoNames
    /\ calls' = <<>>
    /\ connCall' = NoConnCall
    /\ failedStep' = 0
    /\ failedName' = <<>>
    /\ faulted' = FALSE
    /\ UNCHANGED <<templates, remote>>

(***************************************************************************)
(* SpecUpload: upload_data_files                                           *)
(*                                                                         *)
(* A file is the sequence of the parts of its path below local_folder, the *)
(* last part being the file's name and ending in its extension.            *)
(***************************************************************************)

MaxDepth == 2
MaxPartLen == 2
MaxFiles == 2

PathAlphabet == {"a", "_"}
Extensions == {".pdf", ".txt"}
os_sep == "/"

\* The names a directory can have, and the names a file can have.
DirNames == TextsUpTo(PathAlphabet, MaxPartLen) \ {<<>>}
FileNames == {stem \o <<ext>> : stem \in DirNames, ext \in Extensions}

\* The files a folder can hold, at most MaxDepth parts deep.
Files ==
    UNION {{dirs \o <<name>> : dirs \in [1..d -> DirNames], name \in FileNames} :
           d \in 0..(MaxDepth - 1)}

\* The folders tried: at most MaxFiles files.
RECURSIVE FoldersUpTo(_)
FoldersUpTo(n) ==
    IF n = 0 THEN {{}}
    ELSE LET smaller == FoldersUpTo(n - 1)
         IN smaller \cup {fs \cup {f} : fs \in smaller, f \in Files}
Folders == FoldersUpTo(MaxFiles)

\* Path(local_folder).rglob("*.pdf"): the files, at any depth, whose name
\* ends in ".pdf".
rglob(folder) == {f \in folder : f[Len(f)][Len(f[Len(f)])] = ".pdf"}

\* os.path.relpath(file, start=local_folder): the parts joined by os.sep.
RECURSIVE relpath(_)
relpath(file) ==
    IF Len(file) = 1 THEN file[1]
    ELSE file[1] \o <<os_sep>> \o relpath(Tail(file))

\* file_subpath.replace(os.sep, "_")
blob_name(file_subpath) == Replace(file_subpath, <<os_sep>>, <<"_">>)

\* upload_blob(name, data, overwrite=True): the blob of that name now holds
\* data, whatever it held.
upload_blob(blobs, name, data) ==
    {b \in blobs : b.name # name} \cup {[name |-> name, data |-> data]}

InitUpload ==
    /\ upc = "start"
    /\ local_folder \in Folders
    /\ pending = {}
    /\ container \in {[exists |-> e, blobs |-> {}] : e \in BOOLEAN}
    /\ uploads = <<>>

UploadIdle ==
    /\ upc = "idle"
    /\ local_folder = {}
    /\ pending = {}
    /\ container = [exists |-> FALSE, blobs |-> {}]
    /\ uploads = <<>>

\* The container is created if it does not exist, and the walk starts.
EnsureContainer ==
    /\ upc = "start"
    /\ container' = [container EXCEPT !.exists = TRUE]
    /\ pending' = rglob(local_folder)
    /\ upc' = "loop"
    /\ UNCHANGED <<local_folder, uploads>>

\* One turn of the loop: the next file is uploaded under its flattened name,
\* or the upload raises and the exception leaves the function.
UploadFile ==
    /\ upc = "loop"
    /\ \E file \in pending :
         LET file_subpath == relpath(file)
             file_name == blob_name(file_subpath)
         IN \E ok \in BOOLEAN :
              IF ok
              THEN /\ container' = [container EXCEPT
                                       !.blobs = upload_blob(@, file_name, file)]
                   /\ uploads' = Append(uploads, [file |-> file, name |-> file_name])
                   /\ pending' = pending \ {file}
                   /\ upc' = "loop"
              ELSE /\ upc' = "failed"
                   /\ UNCHANGED <<container, uploads, pending>>
    /\ UNCHANGED local_folder

\* rglob is exhausted: the function returns.
UploadsDone ==
    /\ upc = "loop"
    /\ pending = {}
    /\ upc' = "done"
    /\ UNCHANGED <<local_folder, pending, container, uploads>>

(***************************************************************************)
(* The specifications                                                      *)
(***************************************************************************)

vars == <<mainVars, renderVars, nameVars, uploadVars>>

Next ==
    \/ ParseArgs /\ UNCHANGED <<renderVars, nameVars, uploadVars>>
    \/ Authenticate /\ UNCHANGED <<renderVars, nameVars, uploadVars>>
    \/ create_or_update_index /\ UNCHANGED <<renderVars, nameVars, uploadVars>>
    \/ create_or_update_datasource /\ UNCHANGED <<renderVars, nameVars, uploadVars>>
    \/ create_or_update_skillset /\ UNCHANGED <<renderVars, nameVars, uploadVars>>
    \/ create_or_update_indexer /\ UNCHANGED <<renderVars, nameVars, uploadVars>>
    \/ Rerun /\ UNCHANGED <<renderVars, nameVars, uploadVars>>

Init == InitMain /\ RenderIdle /\ NameIdle /\ UploadIdle

Spec == Init /\ [][Next]_vars

NextRender == Render /\ UNCHANGED <<mainVars, nameVars, uploadVars>>

InitRenderOnly == InitRender /\ MainIdle /\ NameIdle /\ UploadIdle

SpecRender == InitRenderOnly /\ [][NextRender]_vars

NextName == Validate /\ UNCHANGED <<mainVars, renderVars, uploadVars>>

InitNameOnly == InitName /\ MainIdle /\ RenderIdle /\ UploadIdle

SpecName == InitNameOnly /\ [][NextName]_vars

NextUpload ==
    \/ EnsureContainer /\ UNCHANGED <<mainVars, renderVars, nameVars>>
    \/ UploadFile /\ UNCHANGED <<mainVars, renderVars, nameVars>>
    \/ UploadsDone /\ UNCHANGED <<mainVars, renderVars, nameVars>>

InitUploadOnly == InitUpload /\ MainIdle /\ RenderIdle /\ NameIdle

SpecUpload == InitUploadOnly /\ [][NextUpload]_vars

(***************************************************************************)
(* Claims about main() and the provisioners                                *)
(***************************************************************************)

Position(kind) == CHOOSE i \in 1..4 : <<"index", "datasource", "skillset", "indexer">>[i] = kind
OfKind(store, kind) == SelectSeq(store, LAMBDA r : r.kind = kind)

\* C1: once a provisioning step has raised, the run is over in failure and no
\* create-or-update of a later step has been or is ever invoked; when the
\* skillset step raised, the indexer's create-or-update is never called.
C1_FailFast ==
    failedStep # 0 =>
        /\ pc = "failed"
        /\ \A i \in DOMAIN calls : Position(calls[i].kind) <= failedStep
        /\ Len(calls) <= failedStep
        /\ failedStep = Position("skillset") =>
               \A i \in DOMAIN calls : calls[i].kind # "indexer"

\* C1 witness: the skillset step raised after the index and the data source
\* had been applied.
C1_Witness ==
    /\ pc = "failed"
    /\ failedStep = 3
    /\ failedName = names.skillset_name
    /\ Len(calls) >= 2

\* C2: the create-or-update calls of a run come in the order index, data
\* source, skillset, indexer, and when the indexer's is invoked the index, the
\* data source and the skillset its definition names have each been applied by
\* an accepted call earlier in the same run.
C2_FixedOrder ==
    \A i \in DOMAIN calls :
        /\ calls[i].kind = <<"index", "datasource", "skillset", "indexer">>[i]
        /\ calls[i].kind = "indexer" =>
               /\ \A j \in 1..(i - 1) : calls[j].ok
               /\ calls[1].kind = "index" /\ calls[1].def["name:"] = calls[i].def["targetIndexName:"]
               /\ calls[2].kind = "datasource" /\ calls[2].def["name:"] = calls[i].def["dataSourceName:"]
               /\ calls[3].kind = "skillset" /\ calls[3].def["name:"] = calls[i].def["skillsetName:"]
               /\ \A j \in 1..(i - 1) :
                      \E r \in DOMAIN remote :
                          remote[r] = [kind |-> calls[j].kind, name |-> calls[j].def["name:"],
                                       def |-> calls[j].def]

\* C2 witness: the indexer's create-or-update has been invoked.
C2_Witness ==
    \E i \in DOMAIN calls : calls[i].kind = "indexer"

\* C3: a run that repeats the command line of a run that succeeded, against a
\* service that rejects nothing, succeeds and leaves the service holding
\* exactly the resources, with exactly the definitions, it held before.
C3_Idempotent ==
    (/\ run >= 2
     /\ pc \in {"done", "failed", "usage_error"}
     /\ argv = prevArgv
     /\ prevOutcome = "done"
     /\ ~faulted)
        => (/\ pc = "done"
            /\ Len(calls) = 4
            /\ remote = remoteAtStart)

\* C3 witness: the second of two successful runs with one command line has
\* ended, the service holding the four resources of the first.
C3_Witness ==
    /\ run = 2
    /\ pc = "done"
    /\ argv = prevArgv
    /\ prevOutcome = "done"
    /\ Len(remote) = 4

\* The connection string of the documented form.
ResourceId(subscriptionId, resourceGroup, storageAccount) ==
    <<"ResourceId=/subscriptions/">> \o subscriptionId \o <<"/resourceGroups/">>
        \o resourceGroup \o <<"/providers/Microsoft.Storage", "/storageAccounts/">>
        \o storageAccount \o <<";">>

\* C6 as claimed: the builder, given (subscriptionId, resourceGroup,
\* storageAccount) in that order, returns the documented string, and the data
\* source provisioner's string has its resource group and storage account in
\* the documented places.
C6_BuilderArgumentOrderAsClaimed ==
    connCall # NoConnCall =>
        /\ connCall.result =
               ResourceId(connCall.args[1], connCall.args[2], connCall.args[3])
        /\ connCall.result =
               ResourceId(args.subscription_id, args.resource_group_name, args.storage_name)

\* C6 amended: the builder, given (subscriptionId, storageAccount,
\* resourceGroup) in that order, returns the documented string, and the data
\* source provisioner's string has its resource group and storage account in
\* the documented places.
C6_BuilderArgumentOrder ==
    connCall # NoConnCall =>
        /\ connCall.result =
               ResourceId(connCall.args[1], connCall.args[3], connCall.args[2])
        /\ connCall.result =
               ResourceId(args.subscription_id, args.resource_group_name, args.storage_name)

\* C6 witness: the builder has been called for subscription s1, resource group
\* rg1 and storage account acct1.
C6_Witness ==
    /\ connCall # NoConnCall
    /\ connCall.result =
           <<"ResourceId=/subscriptions/", "s", "1", "/resourceGroups/", "r", "g", "1",
             "/providers/Microsoft.Storage", "/storageAccounts/", "a", "c", "c", "t", "1", ";">>

\* C8: in a run whose command line holds an argument that valid_name or
\* absolute_url rejects, no credential is obtained and no remote
\* create-or-update call is made.
C8_ValidationBeforeRemote ==
    (pc # "idle" /\
     \/ ~valid_name(argv.aisearch_name).ok
     \/ ~valid_name(argv.base_index_name).ok
     \/ ~absolute_url(argv.openai_api_base).ok
     \/ ~valid_name(argv.subscription_id).ok
     \/ ~valid_name(argv.resource_group_name).ok
     \/ ~valid_name(argv.storage_name).ok
     \/ ~valid_name(argv.container_name).ok)
        => (/\ ~credential
            /\ calls = <<>>
            /\ remote = remoteAtStart
            /\ pc \in {"parse", "usage_error"})

\* C8 witness: a run given a URL that absolute_url rejects has ended in the
\* parser's error.
C8_Witness ==
    /\ pc = "usage_error"
    /\ ~absolute_url(argv.openai_api_base).ok
    /\ valid_name(argv.base_index_name).ok

\* C9: after step k of a run failed, the service holds the definitions the k-1
\* earlier steps sent, each sent once and accepted; the resources of the kind
\* of step k and of every later step are as the run found them; the failed
\* call was made at most once.
C9_PartialStateKept ==
    pc = "failed" =>
        /\ failedStep \in 1..4
        /\ \A i \in 1..(failedStep - 1) :
               /\ i \in DOMAIN calls
               /\ calls[i].ok
               /\ Position(calls[i].kind) = i
               /\ OfKind(remote, calls[i].kind) =
                      OfKind(create_or_update(remoteAtStart, calls[i].kind, calls[i].def),
                             calls[i].kind)
        /\ \A k \in failedStep..4 :
               OfKind(remote, <<"index", "datasource", "skillset", "indexer">>[k]) =
                   OfKind(remoteAtStart, <<"index", "datasource", "skillset", "indexer">>[k])
        /\ Len(calls) <= failedStep
        /\ \A i \in DOMAIN calls : i >= failedStep => ~calls[i].ok

\* C9 witness: the skillset step failed in a second run that had by then
\* replaced or added the index and the data source.
C9_Witness ==
    /\ pc = "failed"
    /\ failedStep = 3
    /\ run = 2
    /\ Len(remoteAtStart) >= 3
    /\ remote # remoteAtStart

\* C10: every data source definition sent to the service carries, as its
\* connection string, the string built from the run's subscription, resource
\* group and storage account, whatever the template held in that field.
C10_ConnectionStringOverwritten ==
    \A i \in DOMAIN calls :
        calls[i].kind = "datasource" =>
            /\ "connection_string:" \in DOMAIN calls[i].def
            /\ calls[i].def["connection_string:"] =
                   ResourceId(args.subscription_id, args.resource_group_name, args.storage_name)

\* C10 witness: a data source definition has been sent whose template has no
\* <connection_string> placeholder.
C10_Witness ==
    /\ \E i \in DOMAIN calls : calls[i].kind = "datasource"
    /\ ~Contains(templates.datasource, connection_string)

(***************************************************************************)
(* Claims about _prepare_json_schema                                       *)
(***************************************************************************)

Keys(items) == {items[i][1] : i \in DOMAIN items}

DelimFree(s) == \A i \in DOMAIN s : s[i] \notin Delims

\* Every delimiter of s lies inside an occurrence of one of the keys: the
\* only placeholder syntax in s is placeholders that have a map entry.
Covered(s, keys) ==
    \A i \in DOMAIN s :
        s[i] \in Delims =>
            \E k \in keys : \E j \in 1..i :
                /\ j + Len(k) - 1 >= i
                /\ j + Len(k) - 1 <= Len(s)
                /\ SubSeq(s, j, j + Len(k) - 1) = k

\* A placeholder: "<", then no delimiter, then ">".
HasPlaceholder(s) ==
    \E i \in DOMAIN s : \E j \in DOMAIN s :
        /\ i < j
        /\ s[i] = "<"
        /\ s[j] = ">"
        /\ \A k \in (i + 1)..(j - 1) : s[k] \notin Delims

\* C4 as claimed: whenever every placeholder of the template has a map entry,
\* the rendered text holds no placeholder, whatever the values are.
C4_NoPlaceholderWhateverValues ==
    (rpc = "rendered" /\ Covered(tmpl, Keys(values_to_assign)))
        => ~HasPlaceholder(indexer_def)

\* C4 amended: whenever every placeholder of the template has a map entry and
\* no substitution value contains a delimiter character, the rendered text
\* holds no placeholder (and no delimiter at all).
C4_NoPlaceholderForDelimFreeValues ==
    (/\ rpc = "rendered"
     /\ Covered(tmpl, Keys(values_to_assign))
     /\ \A i \in DOMAIN values_to_assign : DelimFree(values_to_assign[i][2]))
        => (~HasPlaceholder(indexer_def) /\ DelimFree(indexer_def))

\* C4 witness: a template with both tokens' syntax covered by a two-entry map
\* of delimiter-free, non-empty values has been rendered.
C4_Witness ==
    /\ rpc = "rendered"
    /\ Len(values_to_assign) = 2
    /\ Contains(tmpl, TokA)
    /\ Covered(tmpl, Keys(values_to_assign))
    /\ \A i \in DOMAIN values_to_assign :
           DelimFree(values_to_assign[i][2]) /\ values_to_assign[i][2] # <<>>
    /\ indexer_def # tmpl

\* The case C5 is about: item i's key occurs in the template, its value
\* carries item j's key and no other delimiter, and item j's value is plain.
EmbeddedCase(i, j) ==
    /\ i \in DOMAIN values_to_assign
    /\ j \in DOMAIN values_to_assign
    /\ i # j
    /\ Covered(tmpl, Keys(values_to_assign))
    /\ Contains(tmpl, values_to_assign[i][1])
    /\ Contains(values_to_assign[i][2], values_to_assign[j][1])
    /\ Covered(values_to_assign[i][2], {values_to_assign[j][1]})
    /\ DelimFree(values_to_assign[j][2])

\* The rendering in which the token embedded in item i's value has been
\* replaced by item j's value.
SecondPassApplied(i, j) ==
    _prepare_json_schema(tmpl,
        [values_to_assign EXCEPT ![i][2] =
            Replace(values_to_assign[i][2], values_to_assign[j][1], values_to_assign[j][2])])

\* C5 as claimed: for every pair of tokens, a token embedded in the value of
\* another is itself replaced by its own value in the result.
C5_SecondPassForEveryPair ==
    rpc = "rendered" =>
        \A i \in 1..2 : \A j \in 1..2 :
            EmbeddedCase(i, j) =>
                (indexer_def = SecondPassApplied(i, j)
                 /\ ~Contains(indexer_def, values_to_assign[j][1]))

\* C5 amended: the embedded token is replaced by its value when its key comes
\* later in the map's iteration order than the key whose value carried it;
\* when its key comes earlier, the embedded token text stays in the result.
C5_SecondPassOnlyForLaterKeys ==
    rpc = "rendered" =>
        \A i \in 1..2 : \A j \in 1..2 :
            EmbeddedCase(i, j) =>
                IF i < j
                THEN /\ indexer_def = SecondPassApplied(i, j)
                     /\ ~Contains(indexer_def, values_to_assign[j][1])
                ELSE Contains(indexer_def, values_to_assign[j][1])

\* C5 witness: a rendering in which the first key's value carried the second
\* key and the second pass changed the result.
C5_Witness ==
    /\ rpc = "rendered"
    /\ EmbeddedCase(1, 2)
    /\ values_to_assign[2][2] # <<>>
    /\ Contains(indexer_def, values_to_assign[2][2])

(***************************************************************************)
(* Claims about valid_name                                                 *)
(***************************************************************************)

\* C7 as claimed: valid_name returns its argument unchanged exactly when the
\* argument is non-empty after stripping whitespace and every character of it
\* is alphanumeric, a hyphen or an underscore; otherwise it raises.
C7_AcceptsExactlySafeNames ==
    npc = "validated" =>
        /\ validated.ok <=>
               (/\ strip(value) # <<>>
                /\ \A i \in DOMAIN value : value[i] \in Alnum \cup {"-", "_"})
        /\ validated.ok => validated.value = value

(***************************************************************************)
(* Claims about upload_data_files                                          *)
(***************************************************************************)

\* C11 as claimed: any two distinct files uploaded in a run were uploaded
\* under distinct blob names, and the blob written for a file still holds
\* that file: no upload overwrote the blob of another file of the run.
C11_BlobNamesUnique ==
    /\ \A i \in DOMAIN uploads : \A j \in DOMAIN uploads :
           uploads[i].file # uploads[j].file => uploads[i].name # uploads[j].name
    /\ \A i \in DOMAIN uploads :
           [name |-> uploads[i].name, data |-> uploads[i].file] \in container.blobs

====
